---- MODULE Spec2Model ----
(***************************************************************************)
(* Model of src/main.py: the polling loop that keeps the Uptime-Kuma       *)
(* monitor registry in step with the backend's areas, and pings every      *)
(* monitor once per cycle.                                                 *)
(*                                                                         *)
(* Names are sequences of character codes ("Ab" is <<65, 98>>), so that    *)
(* str.title() is computed character by character.  A Python dict is a     *)
(* sequence of records with distinct keys, kept in insertion order.        *)
(***************************************************************************)
EXTENDS Integers, Sequences, FiniteSets, TLC

VARIABLES
    pc,              \* position of the main loop
    backend_status,  \* the document fetched at line 90, kept until lines 97-106 are done
    backend_areas,   \* dict area name -> healthy (lines 85, 97-102)
    uptime_monitors, \* dict monitor name -> {id, name, pushToken} (line 84)
    registry,        \* the monitors stored by Uptime-Kuma
    next_id,         \* the id Uptime-Kuma gives to the next monitor
    loop_i,          \* position of the for loops of lines 125 and 133
    new_id,          \* add_monitor: new['monitorID']
    to_remove,       \* line 132
    pass_state,      \* none / running / skipped / completed / aborted
    created,         \* ids given by api.add_monitor in this cycle
    deleted,         \* ids passed to api.delete_monitor with success in this cycle
    saved,           \* save_status_page succeeded in this cycle
    last_pass,       \* outcome of the last pass that was entered: none / completed / aborted
    repeat,          \* "same"/"flipped": this cycle's area names are those of the previous
                     \* cycle, whose pass did not abort, with equal/changed health; else "no"
    rerun,           \* the pass is being run a second time on the same input
    futures,         \* ping_monitors: the submitted pings, in submission order
    yielded,         \* indices already produced by as_completed
    res,             \* ping_monitors: local variable res (0 = unbound)
    log,             \* the "Ping of URL ... failed" lines of this batch
    crash,           \* the exception that ended the process ("" = none)
    kuma_page,       \* the status page document stored by Uptime-Kuma
    status_page,     \* line 144: the document fetched, changed and saved by the pass
    pre_pass,        \* uptime_monitors as it was when the pass of this cycle was entered
    lost_sessions    \* sessions opened by a pass that ended without disconnect;
                     \* MaxSessions stands for MaxSessions or more

vars == <<pc, backend_status, backend_areas, uptime_monitors, registry, next_id,
          loop_i, new_id, to_remove, pass_state, created, deleted, saved,
          last_pass, repeat, rerun, futures, yielded, res, log, crash,
          kuma_page, status_page, pre_pass, lost_sessions>>

----------------------------------------------------------------------------
(* Bounds *)

MaxAreas == 2        \* areas in one backend document
MaxIds == 2          \* monitors Uptime-Kuma creates in one run
MaxReportCount == 2  \* largest active_workers / expected_workers the evaluation is run on
MaxSessions == 1     \* open sessions that are counted

(* Configuration values (config.toml) *)

ThresholdNum == 1    \* config['backend']['threshold'] = ThresholdNum / ThresholdDen
ThresholdDen == 2
max_workers == 2     \* config['general']['max_workers']
TokenBase == 100     \* pushToken of monitor id is an opaque value, here id + TokenBase

----------------------------------------------------------------------------
(* Names *)

AreaNames == { <<65, 98>>, <<66, 97>>, <<98, 97>> }   \* "Ab", "Ba", "ba"

IsUpper(c) == c \in 65..90
IsLower(c) == c \in 97..122
IsCased(c) == IsUpper(c) \/ IsLower(c)
ToUpper(c) == IF IsLower(c) THEN c - 32 ELSE c
ToLower(c) == IF IsUpper(c) THEN c + 32 ELSE c

\* str.title(): a cased character that follows a cased character is
\* lower-cased, every other cased character is upper-cased.
Title(name) ==
    [k \in DOMAIN name |->
        IF k > 1 /\ IsCased(name[k - 1]) THEN ToLower(name[k]) ELSE ToUpper(name[k])]

\* list comparison of Python, on lists of integers
RECURSIVE LexLess(_, _)
LexLess(a, b) ==
    IF a = <<>> THEN b # <<>>
    ELSE IF b = <<>> THEN FALSE
    ELSE IF Head(a) # Head(b) THEN Head(a) < Head(b)
    ELSE LexLess(Tail(a), Tail(b))

\* sorted() of a list of names
Sorted(names) == SortSeq(names, LexLess)

----------------------------------------------------------------------------
(* Python dicts: insertion-ordered, one entry per key *)

Keys(d) == { d[i].name : i \in DOMAIN d }
KeyList(d) == [i \in DOMAIN d |-> d[i].name]
DictPut(d, rec) ==
    IF \E i \in DOMAIN d : d[i].name = rec.name
    THEN [i \in DOMAIN d |-> IF d[i].name = rec.name THEN rec ELSE d[i]]
    ELSE Append(d, rec)
DictGet(d, name) == d[CHOOSE i \in DOMAIN d : d[i].name = name]
DictDel(d, names) == SelectSeq(d, LAMBDA r : r.name \notin names)

----------------------------------------------------------------------------
(* The backend document and the health evaluation (lines 90-102) *)

WorkerManager(a, e) == [active_workers |-> a, expected_workers |-> e]
Area(n, wm) == [name |-> n, worker_managers |-> wm]

\* the worker_managers lists of the documents the loop is run on: an empty
\* list, or one report: no worker expected, none active, or just as many
\* active as the threshold asks for
ManagerLists ==
    { <<>>,
      <<WorkerManager(0, 0)>>,
      <<WorkerManager(0, ThresholdDen)>>,
      <<WorkerManager(ThresholdNum, ThresholdDen)>> }

\* the worker_managers lists the evaluation alone is run on: also a report
\* followed by a second one with different counts
ReportLists ==
    {<<>>}
    \cup { <<WorkerManager(a, e)>> : a \in 0..MaxReportCount, e \in 0..MaxReportCount }
    \cup { <<WorkerManager(p[1], p[2]), WorkerManager(p[2], p[1])>> :
             p \in { q \in (0..MaxReportCount) \X (0..MaxReportCount) : q[1] # q[2] } }

\* documents: at most MaxAreas areas, each name once (name is the unique key)
DocsOver(lists) ==
    UNION { { d \in [1..n -> { Area(nm, wm) : nm \in AreaNames, wm \in lists }] :
                \A i, j \in 1..n : i # j => d[i].name # d[j].name } : n \in 0..MaxAreas }
Docs == DocsOver(ManagerLists)
ReportDocs == DocsOver(ReportLists)

\* area['worker_managers'][0] raises IndexError on an empty list
Malformed(doc) == \E i \in DOMAIN doc : doc[i].worker_managers = <<>>

\* the comparison with > in place of >=
HealthyStrict(wm) ==
    wm.active_workers * ThresholdDen > ThresholdNum * wm.expected_workers

\* active_workers / expected_workers >= threshold, for expected_workers > 0:
\* the quotient is compared as a fraction
Healthy(wm) ==
    wm.active_workers * ThresholdDen >= ThresholdNum * wm.expected_workers

\* the dict comprehension of lines 97-102
RECURSIVE BackendAreas(_)
BackendAreas(doc) ==
    IF doc = <<>> THEN <<>>
    ELSE LET n == Len(doc)
             rest == BackendAreas(SubSeq(doc, 1, n - 1))
             wm == doc[n].worker_managers[1]
         IN  IF wm.expected_workers # 0
             THEN DictPut(rest, [name |-> doc[n].name, healthy |-> Healthy(wm)])
             ELSE rest

\* the test without its second operand
TriggeredNoEmpty(monitors, areas) ==
    Sorted(KeyList(monitors)) # Sorted(KeyList(areas))

\* the test replaced by an unconditional pass
TriggeredAlways(monitors, areas) ==
    Len(areas) >= 0

\* line 105
Triggered(monitors, areas) ==
    Sorted(KeyList(monitors)) # Sorted(KeyList(areas)) \/ Len(areas) = 0

----------------------------------------------------------------------------
(* The registry (Uptime-Kuma) *)

Monitor(id, name, tagged) ==
    [id |-> id, name |-> name, pushToken |-> id + TokenBase, tagged |-> tagged]
CacheEntry(m) == [id |-> m.id, name |-> m.name, pushToken |-> m.pushToken]
MonitorById(id) == CHOOSE m \in registry : m.id = id

\* lines 116-122: kuma.get_monitors() in id order, tagged monitors into the cache
RECURSIVE LoadTagged(_, _, _)
LoadTagged(cache, reg, from) ==
    IF \A m \in reg : m.id < from THEN cache
    ELSE LET id == CHOOSE i \in { m.id : m \in reg } :
                       i >= from /\ \A m \in reg : m.id >= from => i <= m.id
             mon == CHOOSE m \in reg : m.id = id
         IN  LoadTagged(IF mon.tagged THEN DictPut(cache, CacheEntry(mon)) ELSE cache,
                        reg, id + 1)

----------------------------------------------------------------------------
(* The status page (lines 143-162) and the sort key (lines 72-74) *)

\* 'AĄBCĆDEĘFGHIJKLŁMNŃOÓPRSŚTUWYZŹŻaąbcćdeęfghijklłmnńoóprsśtuwyzźż'
polish_alphabet ==
    << 65, 260, 66, 67, 262, 68, 69, 280, 70, 71, 72, 73, 74, 75, 76, 321,
       77, 78, 323, 79, 211, 80, 82, 83, 346, 84, 85, 87, 89, 90, 377, 379,
       97, 261, 98, 99, 263, 100, 101, 281, 102, 103, 104, 105, 106, 107, 108, 322,
       109, 110, 324, 111, 243, 112, 114, 115, 347, 116, 117, 119, 121, 122, 378, 380 >>

\* str.find: the 0-based position of the character
Find(c) == (CHOOSE i \in DOMAIN polish_alphabet : polish_alphabet[i] = c) - 1

\* line 74
polish_sort_key(word) ==
    [k \in DOMAIN word |->
        IF \E i \in DOMAIN polish_alphabet : polish_alphabet[i] = word[k]
        THEN Find(word[k]) ELSE word[k]]

\* sorted(..., key=...) is stable: an entry goes behind the entries whose key
\* is not greater
InsertByKey(sorted, m) ==
    LET pos == Cardinality({ i \in DOMAIN sorted :
                   ~LexLess(polish_sort_key(m.name), polish_sort_key(sorted[i].name)) })
    IN  SubSeq(sorted, 1, pos) \o <<m>> \o SubSeq(sorted, pos + 1, Len(sorted))

RECURSIVE SortedByKey(_)
SortedByKey(list) ==
    IF list = <<>> THEN <<>>
    ELSE InsertByKey(SortedByKey(SubSeq(list, 1, Len(list) - 1)), list[Len(list)])

\* lines 154-159
MonitorList(monitors) ==
    SortedByKey([i \in DOMAIN monitors |->
                    [id |-> monitors[i].id, name |-> monitors[i].name, sendUrl |-> 0]])

\* config['uptime']['group']
GroupName == "areas"

\* the page as Uptime-Kuma holds it before the first pass: a group that is not
\* the program's, and the program's group
InitPage ==
    [ title |-> "status",
      incident |-> "none",
      maintenanceList |-> <<>>,
      publicGroupList |->
          << [name |-> "other",
              monitorList |-> <<[id |-> 0, name |-> <<79>>, sendUrl |-> 1]>>],
             [name |-> GroupName, monitorList |-> <<>>] >> ]

\* line 148 left out
DropFieldsIncidentOnly(page) ==
    [f \in DOMAIN page \ {"incident"} |-> page[f]]

\* lines 147-148
DropFields(page) ==
    [f \in DOMAIN page \ {"incident", "maintenanceList"} |-> page[f]]

\* lines 151-159
OverwriteGroup(page, list) ==
    [page EXCEPT !.publicGroupList =
        [i \in DOMAIN @ |->
            IF @[i].name = GroupName THEN [@[i] EXCEPT !.monitorList = list] ELSE @[i]]]

\* save_status_page replaces the fields it is given
StorePage(stored, given) ==
    [f \in DOMAIN stored |-> IF f \in DOMAIN given THEN given[f] ELSE stored[f]]

\* one more session left open
MoreSessions(n) == IF n < MaxSessions THEN n + 1 ELSE MaxSessions

----------------------------------------------------------------------------
(* The main loop *)

\* The registry outlives the process.  It is empty, or holds the monitor an
\* earlier run of this program left behind for area "Ab": tagged, or not yet
\* tagged because that run ended inside add_monitor.
InitRegistries == { {} } \cup { {Monitor(1, <<65, 98>>, t)} : t \in BOOLEAN }

Init ==
    /\ pc = "fetch"
    /\ backend_status = <<>>
    /\ backend_areas = <<>>
    /\ uptime_monitors = <<>>
    /\ registry \in InitRegistries
    /\ next_id = Cardinality(registry) + 1
    /\ loop_i = 0
    /\ new_id = 0
    /\ to_remove = <<>>
    /\ pass_state = "none"
    /\ last_pass = "none"
    /\ created = {}
    /\ deleted = {}
    /\ saved = FALSE
    /\ repeat = "no"
    /\ rerun = FALSE
    /\ futures = <<>>
    /\ yielded = {}
    /\ res = 0
    /\ log = <<>>
    /\ crash = ""
    /\ kuma_page = InitPage
    /\ status_page = <<>>
    /\ pre_pass = <<>>
    /\ lost_sessions = 0

pageVars == <<kuma_page, status_page>>
passVars == <<loop_i, new_id, to_remove>>
callVars == <<created, deleted, saved>>
pingVars == <<futures, yielded, res, log>>

\* line 90, no exception
FetchOk ==
    /\ pc = "fetch"
    /\ \E doc \in Docs : backend_status' = doc
    /\ pc' = "eval"
    /\ UNCHANGED <<backend_areas, uptime_monitors, registry, next_id, passVars,
                   pass_state, last_pass, callVars, repeat, rerun, pageVars, pre_pass, lost_sessions, pingVars, crash>>

\* the continue of line 94 left out: the cycle goes on to the ping
FetchFailNoContinue ==
    /\ pc = "fetch"
    /\ pc' = "ping"
    /\ UNCHANGED <<backend_status, backend_areas, uptime_monitors, registry, next_id,
                   passVars, pass_state, last_pass, callVars, repeat, rerun, pageVars, pre_pass, lost_sessions, pingVars, crash>>

\* lines 91-93: the fetch raised
FetchFail ==
    /\ pc = "fetch"
    /\ pc' = "error_sleep"
    /\ UNCHANGED <<backend_status, backend_areas, uptime_monitors, registry, next_id,
                   passVars, pass_state, last_pass, callVars, repeat, rerun, pageVars, pre_pass, lost_sessions, pingVars, crash>>

\* lines 93-94: time.sleep(error_sleep); continue
ErrorSleep ==
    /\ pc = "error_sleep"
    /\ pc' = "fetch"
    /\ UNCHANGED <<backend_status, backend_areas, uptime_monitors, registry, next_id,
                   passVars, pass_state, last_pass, callVars, repeat, rerun, pageVars, pre_pass, lost_sessions, pingVars, crash>>

\* lines 97-106: the desired map and the trigger test; an exception of the
\* comprehension is caught nowhere
Evaluate ==
    /\ pc = "eval"
    /\ IF Malformed(backend_status)
       THEN /\ pc' = "crashed"
            /\ crash' = "IndexError"
            /\ UNCHANGED <<backend_areas, pass_state, repeat, pre_pass>>
       ELSE /\ backend_areas' = BackendAreas(backend_status)
            /\ repeat' =
                  IF /\ pass_state \in {"skipped", "completed"}
                     /\ Keys(backend_areas') = Keys(backend_areas)
                  THEN IF \A n \in Keys(backend_areas) :
                            DictGet(backend_areas', n).healthy = DictGet(backend_areas, n).healthy
                       THEN "same" ELSE "flipped"
                  ELSE "no"
            /\ IF Triggered(uptime_monitors, backend_areas')
               THEN pc' = "login" /\ pass_state' = "running"
                    /\ pre_pass' = uptime_monitors
               ELSE pc' = "ping" /\ pass_state' = "skipped"
                    /\ pre_pass' = pre_pass
            /\ crash' = crash
    /\ UNCHANGED <<backend_status, uptime_monitors, registry, next_id, passVars,
                   last_pass, callVars, rerun, pageVars, lost_sessions, pingVars>>

\* lines 166-167: an exception anywhere in the pass
Abort ==
    /\ pc' = "ping"
    /\ pass_state' = "aborted"
    /\ last_pass' = "aborted"
    /\ loop_i' = 0
    /\ new_id' = 0
    /\ to_remove' = <<>>

\* an exception while the session of the pass is open: nothing closes it
AbortOpen ==
    /\ Abort
    /\ lost_sessions' = MoreSessions(lost_sessions)

\* lines 110-111: the constructor connects, login authenticates; either may
\* raise, the second with the session open
Login ==
    /\ pc = "login"
    /\ backend_status' = <<>>     \* not read after line 102
    /\ \/ /\ pc' = "tags"
          /\ UNCHANGED <<pass_state, last_pass, lost_sessions, passVars>>
       \/ Abort /\ UNCHANGED lost_sessions
       \/ AbortOpen
    /\ UNCHANGED <<backend_areas, uptime_monitors, registry, next_id,
                   callVars, repeat, rerun, pageVars, pre_pass, pingVars, crash>>

\* line 112
FetchTags ==
    /\ pc = "tags"
    /\ \/ pc' = "list" /\ UNCHANGED <<pass_state, last_pass, lost_sessions, passVars>>
       \/ AbortOpen
    /\ UNCHANGED <<backend_status, backend_areas, uptime_monitors, registry, next_id,
                   callVars, repeat, rerun, pageVars, pre_pass, pingVars, crash>>

\* lines 115-122
GetMonitors ==
    /\ pc = "list"
    /\ \/ /\ uptime_monitors' = LoadTagged(uptime_monitors, registry, 0)
          /\ pc' = "add"
          /\ loop_i' = 1
          /\ UNCHANGED <<pass_state, last_pass, lost_sessions, new_id, to_remove>>
       \/ AbortOpen /\ UNCHANGED uptime_monitors
    /\ UNCHANGED <<backend_status, backend_areas, registry, next_id,
                   callVars, repeat, rerun, pageVars, pre_pass, pingVars, crash>>

\* lines 125-126: the next area that is not a key of the cache, if any
AddLoop ==
    /\ pc = "add"
    /\ LET missing == { i \in loop_i..Len(backend_areas) :
                          backend_areas[i].name \notin Keys(uptime_monitors) }
       IN  IF missing = {}
           THEN pc' = "del" /\ loop_i' = 1
           ELSE /\ pc' = "create"
                /\ loop_i' = CHOOSE i \in missing : \A j \in missing : i <= j
    /\ UNCHANGED <<backend_status, backend_areas, uptime_monitors, registry, next_id,
                   new_id, to_remove, pass_state, last_pass, callVars, repeat, rerun, pageVars, pre_pass, lost_sessions,
                   pingVars, crash>>

\* add_monitor, lines 12-16
CreateMonitor ==
    /\ pc = "create"
    /\ \/ /\ next_id <= MaxIds
          /\ registry' = registry \cup
                 {Monitor(next_id, Title(backend_areas[loop_i].name), FALSE)}
          /\ new_id' = next_id
          /\ next_id' = next_id + 1
          /\ created' = created \cup {next_id}
          /\ pc' = "tag"
          /\ UNCHANGED <<pass_state, last_pass, lost_sessions, loop_i, to_remove>>
       \/ AbortOpen /\ UNCHANGED <<registry, next_id, created>>
    /\ UNCHANGED <<backend_status, backend_areas, uptime_monitors, deleted, saved,
                   repeat, rerun, pageVars, pre_pass, pingVars, crash>>

\* add_monitor, lines 17-20
AddMonitorTag ==
    /\ pc = "tag"
    /\ \/ /\ registry' = { IF m.id = new_id THEN [m EXCEPT !.tagged = TRUE] ELSE m :
                             m \in registry }
          /\ pc' = "refetch"
          /\ UNCHANGED <<pass_state, last_pass, lost_sessions, passVars>>
       \/ AbortOpen /\ UNCHANGED registry
    /\ UNCHANGED <<backend_status, backend_areas, uptime_monitors, next_id,
                   callVars, repeat, rerun, pageVars, pre_pass, pingVars, crash>>

\* add_monitor, lines 21-27, and line 129
GetMonitor ==
    /\ pc = "refetch"
    /\ \/ /\ uptime_monitors' = DictPut(uptime_monitors, CacheEntry(MonitorById(new_id)))
          /\ pc' = "add"
          /\ loop_i' = loop_i + 1
          /\ new_id' = 0
          /\ UNCHANGED <<pass_state, last_pass, lost_sessions, to_remove>>
       \/ AbortOpen /\ UNCHANGED uptime_monitors
    /\ UNCHANGED <<backend_status, backend_areas, registry, next_id,
                   callVars, repeat, rerun, pageVars, pre_pass, pingVars, crash>>

\* lines 133-141: the next cache entry that is not a desired area is deleted
\* from the registry; after the last one the entries of to_remove are dropped
DeleteLoop ==
    /\ pc = "del"
    /\ LET old == { i \in loop_i..Len(uptime_monitors) :
                      uptime_monitors[i].name \notin Keys(backend_areas) }
       IN  IF old = {}
           THEN /\ uptime_monitors' =
                       DictDel(uptime_monitors, { to_remove[k] : k \in DOMAIN to_remove })
                /\ pc' = "getpage"
                /\ loop_i' = 0
                /\ to_remove' = <<>>
                /\ UNCHANGED <<registry, deleted, pass_state, last_pass, lost_sessions, new_id>>
           ELSE LET i == CHOOSE i \in old : \A j \in old : i <= j
                IN  \/ /\ registry' = { m \in registry : m.id # uptime_monitors[i].id }
                       /\ deleted' = deleted \cup {uptime_monitors[i].id}
                       /\ to_remove' = Append(to_remove, uptime_monitors[i].name)
                       /\ loop_i' = i + 1
                       /\ pc' = "del"
                       /\ UNCHANGED <<uptime_monitors, pass_state, last_pass, lost_sessions, new_id>>
                    \/ AbortOpen /\ UNCHANGED <<registry, deleted, uptime_monitors>>
    /\ UNCHANGED <<backend_status, backend_areas, next_id, created, saved,
                   repeat, rerun, pageVars, pre_pass, pingVars, crash>>

\* lines 144-159
GetStatusPage ==
    /\ pc = "getpage"
    /\ \/ /\ status_page' =
                 OverwriteGroup(DropFields(kuma_page), MonitorList(uptime_monitors))
          /\ pc' = "save"
          /\ UNCHANGED <<pass_state, last_pass, lost_sessions, passVars>>
       \/ AbortOpen /\ UNCHANGED status_page
    /\ UNCHANGED <<backend_status, backend_areas, uptime_monitors, registry, next_id,
                   callVars, repeat, rerun, kuma_page, pre_pass, pingVars, crash>>

\* line 162
SaveStatusPage ==
    /\ pc = "save"
    /\ \/ /\ saved' = TRUE
          /\ kuma_page' = StorePage(kuma_page, status_page)
          /\ pc' = "disconnect"
          /\ UNCHANGED <<pass_state, last_pass, lost_sessions, passVars>>
       \/ AbortOpen /\ UNCHANGED <<saved, kuma_page>>
    /\ UNCHANGED <<backend_status, backend_areas, uptime_monitors, registry, next_id,
                   created, deleted, repeat, rerun, status_page, pre_pass, pingVars, crash>>

\* line 165
Disconnect ==
    /\ pc = "disconnect"
    /\ \/ /\ pc' = "ping"
          /\ pass_state' = "completed"
          /\ last_pass' = "completed"
          /\ UNCHANGED <<passVars, lost_sessions>>
       \/ Abort /\ UNCHANGED lost_sessions
       \/ AbortOpen
    /\ UNCHANGED <<backend_status, backend_areas, uptime_monitors, registry, next_id,
                   callVars, repeat, rerun, pageVars, pre_pass, pingVars, crash>>

----------------------------------------------------------------------------
(* ping_monitors (lines 43-65) and ping_status (lines 68-69) *)

\* line 50: the URL is determined by the token and the status message
Url(token, healthy) == [token |-> token, status |-> IF healthy THEN "up" ELSE "down"]

Running == { i \in DOMAIN futures : futures[i].state = "running" }
Queued == { i \in DOMAIN futures : futures[i].state = "queued" }
Finished == { i \in DOMAIN futures : futures[i].state \in {"ok", "failed"} }

\* lines 44-59: uptime_data[area] raises KeyError for an area without a cache
\* entry, and nothing catches it; otherwise every URL is submitted
PingPrepare ==
    /\ pc = "ping"
    /\ IF Keys(backend_areas) \subseteq Keys(uptime_monitors)
       THEN /\ futures' = [i \in DOMAIN backend_areas |->
                            [url |-> Url(DictGet(uptime_monitors,
                                                 backend_areas[i].name).pushToken,
                                         backend_areas[i].healthy),
                             state |-> "queued"]]
            /\ pc' = "pinging"
            /\ crash' = crash
       ELSE /\ pc' = "crashed"
            /\ crash' = "KeyError"
            /\ futures' = futures
    /\ yielded' = {}
    /\ res' = 0
    /\ log' = <<>>
    /\ backend_status' = <<>>     \* not read after line 102
    /\ pre_pass' = <<>>           \* the pass of this cycle is over
    /\ UNCHANGED <<backend_areas, uptime_monitors, registry, next_id,
                   passVars, pass_state, last_pass, callVars, repeat, rerun, pageVars, lost_sessions>>

\* a worker thread of the pool takes the oldest queued ping
PingStart ==
    /\ pc \in {"pinging", "ping_exc"}
    /\ Queued # {}
    /\ Cardinality(Running) < max_workers
    /\ LET i == CHOOSE i \in Queued : \A j \in Queued : i <= j
       IN  futures' = [futures EXCEPT ![i].state = "running"]
    /\ UNCHANGED <<pc, backend_status, backend_areas, uptime_monitors, registry, next_id,
                   passVars, pass_state, last_pass, callVars, repeat, rerun, pageVars, pre_pass, lost_sessions, yielded, res, log,
                   crash>>

\* ping_status: requests.get returns a response or raises
PingFinish ==
    /\ pc \in {"pinging", "ping_exc"}
    /\ \E i \in Running, outcome \in {"ok", "failed"} :
           futures' = [futures EXCEPT ![i].state = outcome]
    /\ UNCHANGED <<pc, backend_status, backend_areas, uptime_monitors, registry, next_id,
                   passVars, pass_state, last_pass, callVars, repeat, rerun, pageVars, pre_pass, lost_sessions, yielded, res, log,
                   crash>>

\* lines 61-65: as_completed yields a finished future; the handler reads res,
\* which is the last response assigned, or is unbound
Collect ==
    /\ pc = "pinging"
    /\ \E i \in Finished \ yielded :
          /\ yielded' = yielded \cup {i}
          /\ IF futures[i].state = "ok"
             THEN res' = i /\ UNCHANGED <<log, pc>>
             ELSE IF res = 0
             THEN pc' = "ping_exc" /\ UNCHANGED <<log, res>>
             ELSE /\ log' = Append(log, [failed |-> i, url |-> futures[res].url])
                  /\ UNCHANGED <<res, pc>>
    /\ UNCHANGED <<backend_status, backend_areas, uptime_monitors, registry, next_id,
                   passVars, pass_state, last_pass, callVars, repeat, rerun, pageVars, pre_pass, lost_sessions, futures, crash>>

\* the with block is left normally: every future was yielded
PingReturn ==
    /\ pc = "pinging"
    /\ yielded = DOMAIN futures
    /\ pc' = "sleep"
    /\ UNCHANGED <<backend_status, backend_areas, uptime_monitors, registry, next_id,
                   passVars, pass_state, last_pass, callVars, repeat, rerun, pageVars, pre_pass, lost_sessions, pingVars, crash>>

\* the exception leaves at once, without the wait of the with block
PingRaiseNoWait ==
    /\ pc = "ping_exc"
    /\ pc' = "crashed"
    /\ crash' = "UnboundLocalError"
    /\ UNCHANGED <<backend_status, backend_areas, uptime_monitors, registry, next_id,
                   passVars, pass_state, last_pass, callVars, repeat, rerun, pageVars, pre_pass, lost_sessions, pingVars>>

\* the with block is left by the exception of line 65: the executor waits for
\* its pings, then the exception leaves ping_monitors and the loop
PingRaise ==
    /\ pc = "ping_exc"
    /\ Finished = DOMAIN futures
    /\ pc' = "crashed"
    /\ crash' = "UnboundLocalError"
    /\ UNCHANGED <<backend_status, backend_areas, uptime_monitors, registry, next_id,
                   passVars, pass_state, last_pass, callVars, repeat, rerun, pageVars, pre_pass, lost_sessions, pingVars>>

\* line 173; the next iteration starts with no call made and no ping sent,
\* and assigns status_page before it reads it
Sleep ==
    /\ pc = "sleep"
    /\ pc' = "fetch"
    /\ created' = {}
    /\ deleted' = {}
    /\ saved' = FALSE
    /\ futures' = <<>>
    /\ yielded' = {}
    /\ res' = 0
    /\ log' = <<>>
    /\ pre_pass' = <<>>
    /\ status_page' = <<>>
    /\ UNCHANGED <<backend_status, backend_areas, uptime_monitors, registry, next_id,
                   passVars, pass_state, last_pass, repeat, rerun, kuma_page, lost_sessions,
                   crash>>

Pass ==
    \/ Login
    \/ FetchTags
    \/ GetMonitors
    \/ AddLoop
    \/ CreateMonitor
    \/ AddMonitorTag
    \/ GetMonitor
    \/ DeleteLoop
    \/ GetStatusPage
    \/ SaveStatusPage
    \/ Disconnect

Ping ==
    \/ PingPrepare
    \/ PingStart
    \/ PingFinish
    \/ Collect
    \/ PingReturn
    \/ PingRaise

Next ==
    \/ FetchOk
    \/ FetchFail
    \/ ErrorSleep
    \/ Evaluate
    \/ Pass
    \/ Ping
    \/ Sleep

Spec == Init /\ [][Next]_vars

----------------------------------------------------------------------------
(* Two passes back to back: the loop up to the end of its first pass, which *)
(* is then run again on the same desired map and the registry it left.     *)

Rerun ==
    /\ pc = "ping"
    /\ pass_state = "completed"
    /\ ~rerun
    /\ rerun' = TRUE
    /\ pc' = "login"
    /\ pass_state' = "running"
    /\ created' = {}
    /\ deleted' = {}
    /\ saved' = FALSE
    /\ pre_pass' = uptime_monitors
    /\ UNCHANGED <<backend_status, backend_areas, uptime_monitors, registry, next_id,
                   passVars, last_pass, repeat, pingVars, crash, pageVars, lost_sessions>>

NextRerun ==
    \/ FetchOk
    \/ Evaluate
    \/ Pass
    \/ Rerun

SpecRerun == Init /\ [][NextRerun]_vars

(* The health evaluation alone, on every report up to MaxReportCount *)

InitHealth ==
    /\ Init
    /\ registry = {}

FetchReport ==
    /\ pc = "fetch"
    /\ \E doc \in ReportDocs : backend_status' = doc
    /\ pc' = "eval"
    /\ UNCHANGED <<backend_areas, uptime_monitors, registry, next_id, passVars,
                   pass_state, last_pass, callVars, repeat, rerun, pageVars, pre_pass, lost_sessions, pingVars, crash>>

NextHealth ==
    \/ FetchReport
    \/ Evaluate

SpecHealth == InitHealth /\ [][NextHealth]_vars

----------------------------------------------------------------------------
(* Properties *)

DesiredNames == Keys(backend_areas)
CacheNames == Keys(uptime_monitors)
TaggedNames == { m.name : m \in { r \in registry : r.tagged } }

\* C1: after a pass that ran to completion without an exception, the keys of
\* uptime_monitors are exactly the desired area names, whatever the names are.
C1_CacheEqualsDesired ==
    (pc = "ping" /\ pass_state = "completed") => CacheNames = DesiredNames

\* C2: a second pass, run right after a completed pass on the same desired
\* map, makes no add_monitor and no delete_monitor call.
C2_SecondPassNoCalls ==
    rerun => (created = {} /\ deleted = {} /\ pc \notin {"create", "tag", "refetch"})

\* C3: at the end of a cycle whose last entered pass ran to completion, the
\* names of the tagged monitors of the registry are exactly the names of the
\* areas with expected_workers # 0.
C3_TaggedEqualsDesired ==
    (pc = "sleep" /\ last_pass = "completed") => TaggedNames = DesiredNames

\* C4: the registry never holds two monitors of one name, and once a pass has
\* completed every desired area has exactly one monitor record and no tagged
\* monitor is without a desired area.
C4_OneMonitorPerArea ==
    /\ \A m1, m2 \in registry : m1.name = m2.name => m1.id = m2.id
    /\ (pc \in {"ping", "pinging", "sleep"} /\ pass_state = "completed") =>
           /\ TaggedNames \subseteq DesiredNames
           /\ \A n \in DesiredNames : Cardinality({ m \in registry : m.name = n }) = 1

\* C5: after a successful fetch the pass is entered exactly when the cache
\* names differ from the desired names as sets, or the cache is empty.
C5_TriggerIffDiffer ==
    /\ pc = "login" => (CacheNames # DesiredNames \/ uptime_monitors = <<>>)
    /\ (pc = "ping" /\ pass_state = "skipped") =>
           ~(CacheNames # DesiredNames \/ uptime_monitors = <<>>)

\* the pass is entered on an empty cache with names that do not differ
C5_Witness ==
    /\ pc = "login"
    /\ last_pass = "completed"
    /\ uptime_monitors = <<>>
    /\ CacheNames = DesiredNames

NoRegistryCall == created = {} /\ deleted = {} /\ ~saved

\* C6 as stated: a cycle with the area names of the previous cycle, whose
\* pass did not abort, makes no add_monitor, delete_monitor or
\* save_status_page call, for every set of names, the empty set included.
C6_Debounce ==
    repeat # "no" => NoRegistryCall

\* C6, amended: the same for every set of names but the empty one; the pass
\* is not even entered.
C6_DebounceNonEmpty ==
    (repeat # "no" /\ backend_areas # <<>>) => (pass_state = "skipped" /\ NoRegistryCall)

\* a cycle that repeats the names of the previous one with a changed health
\* value has run to its end
C6_Witness ==
    /\ repeat = "flipped"
    /\ backend_areas # <<>>
    /\ pc = "sleep"

\* C7: the loop never terminates, whatever fails.
C7_NeverTerminates ==
    pc # "crashed"

Failed == { i \in DOMAIN futures : futures[i].state = "failed" }

\* C8: no exception leaves ping_monitors, and when it returns every ping has
\* completed and one failure is logged per failed ping.
C8_PingIsolation ==
    /\ pc # "ping_exc"
    /\ crash # "UnboundLocalError"
    /\ pc = "sleep" => (Finished = DOMAIN futures /\ Len(log) = Cardinality(Failed))

\* C9: a cycle whose fetch succeeded and whose desired map was computed ends
\* with one ping dispatched per desired area, to the cached pushToken of that
\* area, with status up exactly for a healthy area, and no other ping.
C9_OnePingPerArea ==
    (pc = "sleep" \/ (pc = "crashed" /\ crash # "IndexError")) =>
        /\ Len(futures) = Len(backend_areas)
        /\ \A i \in DOMAIN backend_areas :
              /\ backend_areas[i].name \in CacheNames
              /\ futures[i].url.token =
                     DictGet(uptime_monitors, backend_areas[i].name).pushToken
              /\ futures[i].url.status = "up" <=> backend_areas[i].healthy

FirstManager(area) == area.worker_managers[1]

\* C10: the desired map holds exactly the areas whose first worker manager
\* has expected_workers # 0, each mapped to true exactly when
\* active_workers / expected_workers is not below the threshold.
C10_HealthEvaluation ==
    pc \in {"login", "ping"} =>
        /\ DesiredNames = { backend_status[i].name :
                              i \in { j \in DOMAIN backend_status :
                                        FirstManager(backend_status[j]).expected_workers # 0 } }
        /\ \A i \in DOMAIN backend_status :
              LET wm == FirstManager(backend_status[i])
              IN  wm.expected_workers # 0 =>
                     (DictGet(backend_areas, backend_status[i].name).healthy
                        <=> ~(wm.active_workers * ThresholdDen
                                < ThresholdNum * wm.expected_workers))

\* a report with a ratio equal to the threshold, mapped to true, next to an
\* area with expected_workers = 0, left out
C10_Witness ==
    /\ pc \in {"login", "ping"}
    /\ \E i, j \in DOMAIN backend_status :
          /\ FirstManager(backend_status[i]).expected_workers # 0
          /\ FirstManager(backend_status[i]).active_workers * ThresholdDen
                = ThresholdNum * FirstManager(backend_status[i]).expected_workers
          /\ DictGet(backend_areas, backend_status[i].name).healthy
          /\ FirstManager(backend_status[j]).expected_workers = 0
          /\ backend_status[j].name \notin DesiredNames

TargetGroups(page) ==
    { i \in DOMAIN page.publicGroupList : page.publicGroupList[i].name = GroupName }

\* the entry save_status_page is to carry for a cached monitor
PageEntry(m) == [id |-> m.id, name |-> m.name, sendUrl |-> 0]

\* list holds one entry per monitor of the cache and nothing else
ListsCache(list, cache) ==
    /\ Len(list) = Len(cache)
    /\ \A i, j \in DOMAIN list : list[i] = list[j] => i = j
    /\ { list[i] : i \in DOMAIN list } = { PageEntry(cache[i]) : i \in DOMAIN cache }

\* C11: the document given to save_status_page has no field incident and no
\* field maintenanceList, its target group lists exactly one entry
\* (id, name, sendUrl 0) per monitor of the cache without duplicates, and its
\* other groups and fields are those get_status_page returned.
C11_SavedDocument ==
    pc = "save" =>
        /\ DOMAIN status_page = DOMAIN kuma_page \ {"incident", "maintenanceList"}
        /\ \A f \in DOMAIN status_page \ {"publicGroupList"} : status_page[f] = kuma_page[f]
        /\ Len(status_page.publicGroupList) = Len(kuma_page.publicGroupList)
        /\ \A i \in DOMAIN status_page.publicGroupList :
              IF i \in TargetGroups(kuma_page)
              THEN /\ status_page.publicGroupList[i].name = GroupName
                   /\ ListsCache(status_page.publicGroupList[i].monitorList, uptime_monitors)
              ELSE status_page.publicGroupList[i] = kuma_page.publicGroupList[i]

\* a document for a cache of two monitors is about to be saved over a page
\* that already lists a monitor in the target group
C11_Witness ==
    /\ pc = "save"
    /\ Len(uptime_monitors) = 2
    /\ \E i \in TargetGroups(kuma_page) : kuma_page.publicGroupList[i].monitorList # <<>>

\* the target group's list as Uptime-Kuma stores it
StoredList ==
    kuma_page.publicGroupList[CHOOSE i \in TargetGroups(kuma_page) : TRUE].monitorList

OrderedByKey(list) ==
    \A i, j \in DOMAIN list :
        i < j => ~LexLess(polish_sort_key(list[j].name), polish_sort_key(list[i].name))

\* C12: at the end of every cycle the stored monitorList of the target group
\* is a full, duplicate-free listing of the monitors of the cache, ordered by
\* polish_sort_key of the name, also after a pass that aborted before
\* save_status_page.
C12_StoredListing ==
    pc = "sleep" => (ListsCache(StoredList, uptime_monitors) /\ OrderedByKey(StoredList))

----------------------------------------------------------------------------
(* The end of a pass alone (lines 143-165), on caches whose names draw on   *)
(* letters of the alphabet and on characters outside it.                    *)

\* "A ", "A0", "Aa", "Ab", "Am", "Q": each is its own title-cased form
SortNames == { <<65, 32>>, <<65, 48>>, <<65, 97>>, <<65, 98>>, <<65, 109>>, <<81>> }

\* the caches of up to MaxAreas monitors with distinct names, in every
\* insertion order
SortCaches ==
    { [i \in DOMAIN names |-> CacheEntry(Monitor(i, names[i], TRUE))] :
        names \in { s \in UNION { [1..n -> SortNames] : n \in 0..MaxAreas } :
                      \A i, j \in DOMAIN s : s[i] = s[j] => i = j } }

\* the pass has reached line 143 with the cache equal to the desired map and
\* to the tagged monitors of the registry
InitSort ==
    /\ pc = "getpage"
    /\ uptime_monitors \in SortCaches
    /\ backend_status = <<>>
    /\ backend_areas = [i \in DOMAIN uptime_monitors |->
                          [name |-> uptime_monitors[i].name, healthy |-> TRUE]]
    /\ registry = { Monitor(i, uptime_monitors[i].name, TRUE) : i \in DOMAIN uptime_monitors }
    /\ next_id = Len(uptime_monitors) + 1
    /\ loop_i = 0
    /\ new_id = 0
    /\ to_remove = <<>>
    /\ pass_state = "running"
    /\ last_pass = "none"
    /\ created = {}
    /\ deleted = {}
    /\ saved = FALSE
    /\ repeat = "no"
    /\ rerun = FALSE
    /\ futures = <<>>
    /\ yielded = {}
    /\ res = 0
    /\ log = <<>>
    /\ crash = ""
    /\ kuma_page = InitPage
    /\ status_page = <<>>
    /\ pre_pass = <<>>
    /\ lost_sessions = 0

NextSort ==
    \/ GetStatusPage
    \/ SaveStatusPage
    \/ Disconnect

SpecSort == InitSort /\ [][NextSort]_vars

\* C13: distinct names have distinct sort keys, so the saved list is in
\* strictly ascending key order whatever the insertion order of the cache was.
C13_StrictOrder ==
    saved =>
        \A i, j \in DOMAIN StoredList :
            i < j => LexLess(polish_sort_key(StoredList[i].name),
                             polish_sort_key(StoredList[j].name))

\* what a cycle whose fetch failed must leave alone: the registry and its
\* page, the sessions, the pings, the cache and the desired map
FailureFrame ==
    <<registry, next_id, kuma_page, lost_sessions, created, deleted, saved,
      futures, uptime_monitors, backend_areas>>

\* C14: a cycle whose fetch fails makes no registry call, sends no ping,
\* leaves the cache and the desired map as they were, and goes through the
\* error backoff to a new fetch.
C14_FetchFailure ==
    [][ /\ (pc = "fetch" /\ pc' # "eval") =>
              (pc' = "error_sleep" /\ UNCHANGED FailureFrame)
        /\ pc = "error_sleep" =>
              (pc' = "fetch" /\ UNCHANGED FailureFrame) ]_vars

\* the fetch failed with monitors in the cache and areas in the desired map
C14_Witness ==
    /\ pc = "error_sleep"
    /\ uptime_monitors # <<>>
    /\ backend_areas # <<>>

Ids(cache) == { cache[i].id : i \in DOMAIN cache }

\* C15: when a pass aborts, the cache holds the monitors it held when the
\* pass was entered, less the monitors the pass deleted in the registry, plus
\* the monitors the pass created there, and nothing else.
C15_AbortKeepsCache ==
    (pc = "ping" /\ pass_state = "aborted") =>
        Ids(uptime_monitors) = (Ids(pre_pass) \ deleted) \cup (created \ deleted)

\* C16: once the pass is no longer triggered, the cache names are the desired
\* names and the names of the tagged monitors of the registry, also when an
\* earlier pass aborted: no stale cache entry keeps the registry diverged.
C16_Reconverged ==
    (pc = "ping" /\ pass_state = "skipped") =>
        (CacheNames = DesiredNames /\ TaggedNames = DesiredNames)

\* C17: the monitors a pass creates and the monitors it deletes are disjoint.
C17_CreatedNotDeleted ==
    created \cap deleted = {}

\* C19: every failed ping that was collected has one log entry, and the URL
\* of each entry is the URL of the ping that failed.
C19_OwnUrlLogged ==
    /\ \A k \in DOMAIN log : log[k].url = futures[log[k].failed].url
    /\ pc = "sleep" =>
          \A i \in Failed : Cardinality({ k \in DOMAIN log : log[k].failed = i }) = 1

\* the steps of a pass that come after login
AfterLogin == {"tags", "list", "add", "create", "tag", "refetch", "del",
               "getpage", "save", "disconnect"}

\* C20: a pass that ends at any step after login, by completing or by an
\* exception, leaves no session open that was not open before it: the number
\* of open sessions does not grow.
C20_SessionsClosed ==
    [][ (pc \in AfterLogin /\ pc' = "ping") => lost_sessions' = lost_sessions ]_vars

----------------------------------------------------------------------------
(* ping_monitors alone, on a batch larger than the pool: the cache holds    *)
(* PingBatch monitors, the areas of the document just evaluated.            *)

PingBatch == max_workers + 2

\* "Ab", "Ba", "Da", "Q"
PingNames == << <<65, 98>>, <<66, 97>>, <<68, 97>>, <<81>> >>

InitPing ==
    /\ pc = "ping"
    /\ uptime_monitors = [i \in 1..PingBatch |-> CacheEntry(Monitor(i, PingNames[i], TRUE))]
    /\ backend_status = <<>>
    /\ \E h \in [1..PingBatch -> BOOLEAN] :
          backend_areas = [i \in 1..PingBatch |-> [name |-> PingNames[i], healthy |-> h[i]]]
    /\ registry = { Monitor(i, PingNames[i], TRUE) : i \in 1..PingBatch }
    /\ next_id = PingBatch + 1
    /\ loop_i = 0
    /\ new_id = 0
    /\ to_remove = <<>>
    /\ pass_state = "skipped"
    /\ last_pass = "completed"
    /\ created = {}
    /\ deleted = {}
    /\ saved = FALSE
    /\ repeat = "no"
    /\ rerun = FALSE
    /\ futures = <<>>
    /\ yielded = {}
    /\ res = 0
    /\ log = <<>>
    /\ crash = ""
    /\ kuma_page = OverwriteGroup(InitPage, MonitorList(uptime_monitors))
    /\ status_page = <<>>
    /\ pre_pass = <<>>
    /\ lost_sessions = 0

NextPing ==
    \/ Ping
    \/ Sleep

SpecPing == InitPing /\ [][NextPing]_vars

\* C18: never more than max_workers pings are in flight, and outside
\* ping_monitors no ping is queued or in flight: when the function is left,
\* by return or by exception, every ping has completed, and the pass, which
\* alone changes the cache, runs with no batch under way.
C18_PingBarrier ==
    /\ Cardinality(Running) <= max_workers
    /\ pc \notin {"pinging", "ping_exc"} => Finished = DOMAIN futures

\* the exception of line 65 is pending while the pool is full and a ping is
\* still queued
C18_Witness ==
    /\ pc = "ping_exc"
    /\ Cardinality(Running) = max_workers
    /\ Queued # {}

====
